---- MODULE Spec2Model ----
(***************************************************************************)
(* The netbox_token Terraform resource (netbox/resource_netbox_token.go):  *)
(* the four lifecycle callbacks Create, Read, Update and Delete, the       *)
(* passthrough importer, and the remote token endpoints they call.         *)
(*                                                                         *)
(* d       the schema.ResourceData left by the last callback, as the SDK   *)
(*         persists it (a resource whose Id is "" has no state)            *)
(* remote  the remote service's tokens, by numeric ID                      *)
(* last    the callback (or environment step) that ran last                *)
(* pre     the ResourceData handed to that callback                        *)
(* ret     what that callback returned: NilErr or the error                *)
(* calls   the remote exchanges that callback made, in order               *)
(* fresh   <<the ResourceData of the create>> while a successful create    *)
(*         has been followed by reads only, <<>> otherwise                 *)
(***************************************************************************)
EXTENDS Integers, Sequences, FiniteSets, TLC

VARIABLES d, remote, last, pre, ret, calls, fresh

vars == <<d, remote, last, pre, ret, calls, fresh>>

(* ------------------------------ bounds -------------------------------- *)

MaxId == 2

(* --------------------------- program constants ------------------------ *)

V1KeyLen == 40
NotFound == 404

(* ------------------------------ values -------------------------------- *)

Key40 == "0123456789abcdef0123456789abcdef01234567"
KeyV2 == "nbt_Zx81kQ"
KeyGenerated == "nbt_generated"

ExpiresCfg == "2030-01-01T00:00:00Z"
ExpiresCanon == "2030-01-01T00:00:00.000Z"
LastUsedCanon == "2029-06-01T12:00:00.000Z"

Digits == <<"0", "1", "2", "3", "4", "5", "6", "7", "8", "9">>

\* strconv.FormatInt(n, 10), for the one-digit IDs of the model
FormatInt(n) == Digits[n + 1]

\* strconv.ParseInt(s, 10, 64) with its error dropped: 0 when s is no number
ParseInt(s) ==
    IF \E i \in 1..Len(Digits) : Digits[i] = s
    THEN (CHOOSE i \in 1..Len(Digits) : Digits[i] = s) - 1
    ELSE 0

\* strfmt.ParseDateTime: the instant a string denotes ("invalid" on error)
ParseDateTime(s) ==
    CASE s = ExpiresCfg -> "t2030"
      [] s = ExpiresCanon -> "t2030"
      [] s = LastUsedCanon -> "t2029"
      [] OTHER -> "invalid"

\* strfmt.DateTime.String(): the millisecond RFC 3339 form of an instant
DateTimeString(t) ==
    CASE t = "t2030" -> ExpiresCanon
      [] t = "t2029" -> LastUsedCanon
      [] OTHER -> ""

\* the configuration blocks tried (each expires passes validation.IsRFC3339Time):
\* only user_id set; every attribute set, with a v1 key; a key that is not 40
\* characters long and two allowed networks
Configs ==
    {[user_id |-> 1, key |-> "", allowed_ips |-> <<>>, write_enabled |-> FALSE,
      expires |-> "", description |-> ""],
     [user_id |-> 2, key |-> Key40, allowed_ips |-> <<"10.0.0.0/8">>,
      write_enabled |-> TRUE, expires |-> ExpiresCfg,
      description |-> "ci token"],
     [user_id |-> 1, key |-> KeyV2,
      allowed_ips |-> <<"10.0.0.0/8", "192.168.0.0/16">>,
      write_enabled |-> FALSE, expires |-> "", description |-> "v2 token"]}

NoState ==
    [id |-> "", user_id |-> 0, key |-> "", allowed_ips |-> <<>>,
     write_enabled |-> FALSE, last_used |-> "", expires |-> "",
     description |-> ""]

NilErr == [kind |-> "nil", code |-> 0]
Ok == [kind |-> "ok", code |-> 200]
DefaultErr(code) == [kind |-> "default", code |-> code]
TransportErr == [kind |-> "other", code |-> 0]
ParseErr == [kind |-> "parse", code |-> 0]

NoData ==
    [user |-> 0, key |-> "", allowed_ips |-> <<>>, write_enabled |-> FALSE,
     description |-> "", expires |-> "nil"]

NoPayload ==
    [id |-> 0, user |-> <<>>, key |-> "", allowed_ips |-> <<>>,
     write_enabled |-> FALSE, description |-> "", expires |-> "nil",
     last_used |-> "nil"]

(* ------------------- the remote service's endpoints ------------------- *)
(* A remote that stores what it is sent.  env is what the environment      *)
(* decides for one exchange: the outcome ("ok": the request is served;     *)
(* "gone": the token was deleted out of band just before it; "http500": a  *)
(* non-404 error response; "transport": an error that is no HTTP           *)
(* response), whether token retrieval is allowed (showKey), whether a read *)
(* response names the user (withUser), and the ID a create assigns.        *)

ReadEnvs ==
    {e \in [outcome : {"ok", "gone", "http500", "transport"}, showKey : BOOLEAN,
            withUser : BOOLEAN] :
        e.outcome # "ok" => e.showKey /\ e.withUser}

WriteEnvs == {"ok", "gone", "http500", "transport"}

CreateEnvs(rem) ==
    {e \in [outcome : {"ok", "http500", "transport"}, newId : 1..MaxId,
            showKey : BOOLEAN] :
        /\ e.outcome = "ok" => e.newId \notin DOMAIN rem
        /\ e.outcome # "ok" => e.newId = 1 /\ e.showKey}

Without(rem, id) == [i \in DOMAIN rem \ {id} |-> rem[i]]

\* the models.Token a response carries for a stored token
TokenView(id, t, showKey, withUser) ==
    [id |-> id, user |-> IF withUser THEN <<t.user>> ELSE <<>>,
     key |-> IF showKey THEN t.key ELSE "",
     allowed_ips |-> t.allowed_ips, write_enabled |-> t.write_enabled,
     description |-> t.description, expires |-> t.expires,
     last_used |-> t.last_used]

Failure(rem, outcome) ==
    [status |-> IF outcome = "http500" THEN DefaultErr(500) ELSE TransportErr,
     payload |-> NoPayload, remote |-> rem]

\* api.Users.UsersTokensCreate
UsersTokensCreate(rem, data, env) ==
    IF env.outcome # "ok" THEN Failure(rem, env.outcome)
    ELSE LET t == [user |-> data.user,
                   key |-> IF data.key # "" THEN data.key ELSE KeyGenerated,
                   allowed_ips |-> data.allowed_ips,
                   write_enabled |-> data.write_enabled,
                   description |-> data.description,
                   expires |-> data.expires, last_used |-> "nil"]
         IN [status |-> Ok, payload |-> TokenView(env.newId, t, env.showKey, TRUE),
             remote |-> (env.newId :> t) @@ rem]

\* api.Users.UsersTokensRead
UsersTokensRead(rem, id, env) ==
    IF env.outcome \in {"http500", "transport"} THEN Failure(rem, env.outcome)
    ELSE IF env.outcome = "gone" \/ id \notin DOMAIN rem
    THEN [status |-> DefaultErr(NotFound), payload |-> NoPayload,
          remote |-> Without(rem, id)]
    ELSE [status |-> Ok, payload |-> TokenView(id, rem[id], env.showKey, env.withUser),
          remote |-> rem]

\* api.Users.UsersTokensUpdate
UsersTokensUpdate(rem, id, data, outcome) ==
    IF outcome \in {"http500", "transport"} THEN Failure(rem, outcome)
    ELSE IF outcome = "gone" \/ id \notin DOMAIN rem
    THEN [status |-> DefaultErr(NotFound), payload |-> NoPayload,
          remote |-> Without(rem, id)]
    ELSE LET t == [rem[id] EXCEPT
                     !.user = data.user,
                     !.key = IF data.key # "" THEN data.key ELSE @,
                     !.allowed_ips = data.allowed_ips,
                     !.write_enabled = data.write_enabled,
                     !.description = data.description,
                     !.expires = IF data.expires # "nil" THEN data.expires ELSE @]
         IN [status |-> Ok, payload |-> TokenView(id, t, FALSE, TRUE),
             remote |-> [rem EXCEPT ![id] = t]]

\* api.Users.UsersTokensDelete
UsersTokensDelete(rem, id, outcome) ==
    IF outcome \in {"http500", "transport"} THEN Failure(rem, outcome)
    ELSE IF outcome = "gone" \/ id \notin DOMAIN rem
    THEN [status |-> DefaultErr(NotFound), payload |-> NoPayload,
          remote |-> Without(rem, id)]
    ELSE [status |-> Ok, payload |-> NoPayload, remote |-> Without(rem, id)]

Exchange(op, id, data, x, entry) ==
    [op |-> op, id |-> id, data |-> data, status |-> x.status,
     payload |-> x.payload, entry |-> entry]

(* --------------------------- the callbacks ---------------------------- *)

\* d.Set("last_used", token.LastUsed): the empty string for a nil pointer
SetDateTime(t) == IF t = "nil" THEN "" ELSE DateTimeString(t)

\* ReadApply with the description left as it was
ReadApplyStaleDescription(d0, token) ==
    [d0 EXCEPT
       !.user_id = IF token.user # <<>> THEN token.user[1] ELSE @,
       !.key = IF token.key # "" THEN token.key ELSE @,
       !.last_used = SetDateTime(token.last_used),
       !.expires = IF token.expires # "nil"
                   THEN DateTimeString(token.expires) ELSE @,
       !.allowed_ips = token.allowed_ips,
       !.write_enabled = token.write_enabled]

\* ReadApply with the key copied whether or not the response carries one
ReadApplyBlankKey(d0, token) ==
    [d0 EXCEPT
       !.user_id = IF token.user # <<>> THEN token.user[1] ELSE @,
       !.key = token.key,
       !.last_used = SetDateTime(token.last_used),
       !.expires = IF token.expires # "nil"
                   THEN DateTimeString(token.expires) ELSE @,
       !.allowed_ips = token.allowed_ips,
       !.write_enabled = token.write_enabled,
       !.description = token.description]

\* resourceNetboxTokenRead, lines 141-158: the payload copied into d
ReadApply(d0, token) ==
    [d0 EXCEPT
       !.user_id = IF token.user # <<>> THEN token.user[1] ELSE @,
       !.key = IF token.key # "" THEN token.key ELSE @,
       !.last_used = SetDateTime(token.last_used),
       !.expires = IF token.expires # "nil"
                   THEN DateTimeString(token.expires) ELSE @,
       !.allowed_ips = token.allowed_ips,
       !.write_enabled = token.write_enabled,
       !.description = token.description]

\* IsNotFound without the test of the code: any error response counts
IsNotFoundAnyCode(status) == status.kind = "default"

\* the err.(*users.UsersTokens...Default) && Code() == 404 test
IsNotFound(status) == status.kind = "default" /\ status.code = NotFound

\* resourceNetboxTokenRead
ReadBody(d0, rem, env) ==
    LET id == ParseInt(d0.id)
        x == UsersTokensRead(rem, id, env)
        c == Exchange("read", id, NoData, x, d0)
    IN IF x.status.kind # "ok"
       THEN IF IsNotFound(x.status)
            THEN [d |-> [d0 EXCEPT !.id = ""], ret |-> NilErr,
                  calls |-> <<c>>, remote |-> x.remote]
            ELSE [d |-> d0, ret |-> x.status, calls |-> <<c>>,
                  remote |-> x.remote]
       ELSE [d |-> ReadApply(d0, x.payload), ret |-> NilErr, calls |-> <<c>>,
             remote |-> x.remote]

\* the loop copying allowed_ips into data.AllowedIps
CopyIps(allowedIps) == [i \in 1..Len(allowedIps) |-> allowedIps[i]]

\* expiresStr != "" ? strfmt.ParseDateTime(expiresStr) : nil
BuildExpires(expiresStr) ==
    IF expiresStr # "" THEN ParseDateTime(expiresStr) ELSE "nil"

\* CreateData with the description left out of the request
CreateDataNoDescription(d0) ==
    [user |-> d0.user_id,
     key |-> IF d0.key # "" THEN d0.key ELSE "",
     allowed_ips |-> CopyIps(d0.allowed_ips),
     write_enabled |-> d0.write_enabled,
     description |-> "",
     expires |-> BuildExpires(d0.expires)]

\* resourceNetboxTokenCreate, lines 76-105: the models.WritableToken sent
CreateData(d0) ==
    [user |-> d0.user_id,
     key |-> IF d0.key # "" THEN d0.key ELSE "",
     allowed_ips |-> CopyIps(d0.allowed_ips),
     write_enabled |-> d0.write_enabled,
     description |-> d0.description,
     expires |-> BuildExpires(d0.expires)]

\* AfterCreate without the SetId
AfterCreateNoId(d0, payload) ==
    [d0 EXCEPT !.key = IF payload.key # "" THEN payload.key ELSE @]

\* resourceNetboxTokenCreate, lines 112-119: SetId and the returned key
AfterCreate(d0, payload) ==
    [d0 EXCEPT !.id = FormatInt(payload.id),
               !.key = IF payload.key # "" THEN payload.key ELSE @]

\* resourceNetboxTokenCreate
CreateBody(d0, rem, env1, env2) ==
    LET data == CreateData(d0)
        x == UsersTokensCreate(rem, data, env1)
        c == Exchange("create", 0, data, x, d0)
    IN IF data.expires = "invalid"
       THEN [d |-> d0, ret |-> ParseErr, calls |-> <<>>, remote |-> rem]
       ELSE IF x.status.kind # "ok"
       THEN [d |-> d0, ret |-> x.status, calls |-> <<c>>, remote |-> x.remote]
       ELSE LET r == ReadBody(AfterCreate(d0, x.payload), x.remote, env2)
            IN [r EXCEPT !.calls = <<c>> \o @]

\* UpdateData with the write flag left out of the request
UpdateDataNoFlag(d0) ==
    [user |-> d0.user_id,
     key |-> IF d0.key # "" /\ Len(d0.key) = V1KeyLen THEN d0.key ELSE "",
     allowed_ips |-> CopyIps(d0.allowed_ips),
     write_enabled |-> FALSE,
     description |-> d0.description,
     expires |-> BuildExpires(d0.expires)]

\* UpdateData with the key sent whenever it is not empty, as Create does
UpdateDataAnyKey(d0) ==
    [user |-> d0.user_id,
     key |-> IF d0.key # "" THEN d0.key ELSE "",
     allowed_ips |-> CopyIps(d0.allowed_ips),
     write_enabled |-> d0.write_enabled,
     description |-> d0.description,
     expires |-> BuildExpires(d0.expires)]

\* resourceNetboxTokenUpdate, lines 166-194: the models.WritableToken sent
UpdateData(d0) ==
    [user |-> d0.user_id,
     key |-> IF d0.key # "" /\ Len(d0.key) = V1KeyLen THEN d0.key ELSE "",
     allowed_ips |-> CopyIps(d0.allowed_ips),
     write_enabled |-> d0.write_enabled,
     description |-> d0.description,
     expires |-> BuildExpires(d0.expires)]

\* UpdateBody returning after the update call, with no read
UpdateBodyNoRead(d0, rem, env1, env2) ==
    LET id == ParseInt(d0.id)
        data == UpdateData(d0)
        x == UsersTokensUpdate(rem, id, data, env1)
        c == Exchange("update", id, data, x, d0)
    IN IF data.expires = "invalid"
       THEN [d |-> d0, ret |-> ParseErr, calls |-> <<>>, remote |-> rem]
       ELSE IF x.status.kind # "ok"
       THEN [d |-> d0, ret |-> x.status, calls |-> <<c>>, remote |-> x.remote]
       ELSE [d |-> d0, ret |-> NilErr, calls |-> <<c>>, remote |-> x.remote]

\* resourceNetboxTokenUpdate
UpdateBody(d0, rem, env1, env2) ==
    LET id == ParseInt(d0.id)
        data == UpdateData(d0)
        x == UsersTokensUpdate(rem, id, data, env1)
        c == Exchange("update", id, data, x, d0)
    IN IF data.expires = "invalid"
       THEN [d |-> d0, ret |-> ParseErr, calls |-> <<>>, remote |-> rem]
       ELSE IF x.status.kind # "ok"
       THEN [d |-> d0, ret |-> x.status, calls |-> <<c>>, remote |-> x.remote]
       ELSE LET r == ReadBody(d0, x.remote, env2)
            IN [r EXCEPT !.calls = <<c>> \o @]

\* DeleteBody without the 404 case: every error is returned
DeleteBodyNotFoundIsError(d0, rem, env) ==
    LET id == ParseInt(d0.id)
        x == UsersTokensDelete(rem, id, env)
        c == Exchange("delete", id, NoData, x, d0)
    IN IF x.status.kind # "ok"
       THEN [d |-> d0, ret |-> x.status, calls |-> <<c>>, remote |-> x.remote]
       ELSE [d |-> [d0 EXCEPT !.id = ""], ret |-> NilErr, calls |-> <<c>>,
             remote |-> x.remote]

\* resourceNetboxTokenDelete
DeleteBody(d0, rem, env) ==
    LET id == ParseInt(d0.id)
        x == UsersTokensDelete(rem, id, env)
        c == Exchange("delete", id, NoData, x, d0)
    IN IF x.status.kind # "ok"
       THEN IF IsNotFound(x.status)
            THEN [d |-> [d0 EXCEPT !.id = ""], ret |-> NilErr,
                  calls |-> <<c>>, remote |-> x.remote]
            ELSE [d |-> d0, ret |-> x.status, calls |-> <<c>>,
                  remote |-> x.remote]
       ELSE [d |-> [d0 EXCEPT !.id = ""], ret |-> NilErr, calls |-> <<c>>,
             remote |-> x.remote]

(* ------------------- the SDK around the callbacks --------------------- *)

\* the ResourceData of a create: the configuration, no Id, nothing computed
FromConfig(cfg) ==
    [id |-> "", user_id |-> cfg.user_id, key |-> cfg.key,
     allowed_ips |-> cfg.allowed_ips, write_enabled |-> cfg.write_enabled,
     last_used |-> "", expires |-> cfg.expires,
     description |-> cfg.description]

\* the ResourceData of an update: the state with the configuration over it
\* (key is Optional and Computed: left out of the configuration, it keeps
\* the state's value)
Planned(s, cfg) ==
    [s EXCEPT !.user_id = cfg.user_id,
              !.key = IF cfg.key # "" THEN cfg.key ELSE @,
              !.allowed_ips = cfg.allowed_ips,
              !.write_enabled = cfg.write_enabled,
              !.expires = cfg.expires,
              !.description = cfg.description]

\* a ResourceData whose Id is blank is a resource that no longer exists
Persist(r) == IF r.id = "" THEN NoState ELSE r

Ran(name, d0, r) ==
    /\ d' = Persist(r.d)
    /\ remote' = r.remote
    /\ last' = name
    /\ pre' = d0
    /\ ret' = r.ret
    /\ calls' = r.calls

ImportIds == {FormatInt(n) : n \in 1..MaxId} \cup {"abc"}

Init ==
    /\ d = NoState
    /\ remote = <<>>
    /\ last = "Init"
    /\ pre = NoState
    /\ ret = NilErr
    /\ calls = <<>>
    /\ fresh = <<>>

Create ==
    /\ d.id = ""
    /\ \E cfg \in Configs, e1 \in CreateEnvs(remote), e2 \in ReadEnvs :
         LET r == CreateBody(FromConfig(cfg), remote, e1, e2)
         IN /\ Ran("Create", FromConfig(cfg), r)
            /\ fresh' = IF r.ret = NilErr /\ r.d.id # ""
                        THEN <<FromConfig(cfg)>> ELSE <<>>

Read ==
    \E e \in ReadEnvs :
        LET r == ReadBody(d, remote, e)
        IN /\ Ran("Read", d, r)
           /\ fresh' = IF r.d.id # "" THEN fresh ELSE <<>>

Update ==
    /\ d.id # ""
    /\ \E cfg \in Configs, e1 \in WriteEnvs, e2 \in ReadEnvs :
         Ran("Update", Planned(d, cfg),
             UpdateBody(Planned(d, cfg), remote, e1, e2))
    /\ fresh' = <<>>

Delete ==
    /\ \E e \in WriteEnvs : Ran("Delete", d, DeleteBody(d, remote, e))
    /\ fresh' = <<>>

\* schema.ImportStatePassthroughContext: the given string becomes the Id
Import ==
    /\ d.id = ""
    /\ \E s \in ImportIds :
         /\ d' = [NoState EXCEPT !.id = s]
         /\ last' = "Import"
         /\ pre' = NoState
         /\ ret' = NilErr
         /\ calls' = <<>>
         /\ fresh' = <<>>
         /\ UNCHANGED remote

\* the token changes remotely, outside Terraform
RemoteChange ==
    /\ \E id \in DOMAIN remote, what \in {"expires", "description", "used"} :
         remote' = [remote EXCEPT ![id] =
             CASE what = "expires" -> [@ EXCEPT !.expires = "nil"]
               [] what = "description" -> [@ EXCEPT !.description = "edited"]
               [] what = "used" -> [@ EXCEPT !.last_used = "t2029"]]
    /\ last' = "RemoteChange"
    /\ pre' = NoState
    /\ ret' = NilErr
    /\ calls' = <<>>
    /\ fresh' = <<>>
    /\ UNCHANGED d

Next == Create \/ Read \/ Update \/ Delete \/ Import \/ RemoteChange

Spec == Init /\ [][Next]_vars

(* ------------------------------ claims -------------------------------- *)

Callbacks == {"Create", "Read", "Update", "Delete"}

\* an error response whose HTTP code is 404
Is404(status) == status.kind = "default" /\ status.code = 404

\* the exchange was answered "not found" and the callback maps that to absence
AbsentAnswer(c) == c.op \in {"read", "delete"} /\ Is404(c.status)

\* C1: a 404 answer to the Read call or to the Delete call makes the callback
\* return no error with the resource ID cleared; a Delete for a token that is
\* already gone remotely (such as a second Delete, issued with the ID already
\* blank) succeeds.
C1_NotFoundIsAbsence ==
    last \in Callbacks =>
        /\ \A i \in 1..Len(calls) :
              AbsentAnswer(calls[i]) => ret = NilErr /\ d.id = ""
        /\ (last = "Delete" /\ (calls[1].status = Ok \/ Is404(calls[1].status)))
              => ret = NilErr /\ d.id = ""

\* a second Delete: issued with the ID already blank, answered 404, succeeded
C1_Witness ==
    /\ last = "Delete"
    /\ pre.id = ""
    /\ Len(calls) = 1
    /\ Is404(calls[1].status)
    /\ ret = NilErr
    /\ d.id = ""

\* C2: when a remote call fails with anything but a 404 on Read/Delete, the
\* callback returns that error and the resource ID is what it was when the
\* call was made (unset for a failed create call).
C2_ErrorsSurface ==
    (last \in Callbacks /\ Len(calls) > 0) =>
        LET c == calls[Len(calls)]
        IN (c.status.kind # "ok" /\ ~AbsentAnswer(c)) =>
              /\ ret = c.status
              /\ d.id = c.entry.id
              /\ c.op = "create" => d.id = ""

\* an Update answered 404: an error, and the ID is kept
C2_Witness ==
    /\ last = "Update"
    /\ Len(calls) = 1
    /\ Is404(calls[1].status)
    /\ ret = calls[1].status
    /\ d.id # ""
    /\ d.id = pre.id

\* C3: after a successful Create, a later successful Read with nothing but
\* reads in between leaves user_id and description as configured.
C3_RoundTrip ==
    (fresh # <<>> /\ last = "Read" /\ ret = NilErr /\ d.id # "") =>
        /\ d.user_id = fresh[1].user_id
        /\ d.description = fresh[1].description

\* a Read that found the token of a Create configured with a description
C3_Witness ==
    /\ fresh # <<>>
    /\ last = "Read"
    /\ ret = NilErr
    /\ calls[1].status = Ok
    /\ fresh[1].description = "ci token"
    /\ fresh[1].user_id = 2
    /\ d.description = "ci token"

\* the last exchange of the callback was a read that found the token
ReadFound ==
    /\ last \in {"Create", "Read", "Update"}
    /\ Len(calls) > 0
    /\ calls[Len(calls)].op = "read"
    /\ calls[Len(calls)].status = Ok

C5_OneExchange == last \in Callbacks => Len(calls) = 1

\* C5 amended: Read and Delete make exactly one exchange (their own); Create
\* and Update make their write call once and, exactly when it succeeds, one
\* read after it; no call is repeated.
C5_ExchangesPerCallback ==
    /\ last = "Read" => Len(calls) = 1 /\ calls[1].op = "read"
    /\ last = "Delete" => Len(calls) = 1 /\ calls[1].op = "delete"
    /\ last \in {"Create", "Update"} =>
          /\ Len(calls) \in {1, 2}
          /\ calls[1].op = (IF last = "Create" THEN "create" ELSE "update")
          /\ Len(calls) = 2 <=> calls[1].status = Ok
          /\ Len(calls) = 2 => calls[2].op = "read"

\* a successful Update: the update call, then one read
C5_Witness ==
    /\ last = "Update"
    /\ ret = NilErr
    /\ Len(calls) = 2
    /\ calls[1].op = "update"
    /\ calls[2].op = "read"
    /\ calls[2].status = Ok

\* C6: the Update request goes to the token's ID and carries user, allowed
\* IPs, write flag and description as configured, and an expiry exactly when
\* the configured expires is not empty; after a successful update call the
\* remote token holds the configured user, allowed IPs, flag and description.
C6_FullObjectUpdate ==
    (last = "Update" /\ Len(calls) > 0) =>
        LET c == calls[1]
        IN /\ c.op = "update"
           /\ c.id = ParseInt(pre.id)
           /\ c.data.user = pre.user_id
           /\ c.data.allowed_ips = pre.allowed_ips
           /\ c.data.write_enabled = pre.write_enabled
           /\ c.data.description = pre.description
           /\ c.data.expires # "nil" <=> pre.expires # ""
           /\ (c.status = Ok /\ c.id \in DOMAIN remote) =>
                 /\ remote[c.id].user = pre.user_id
                 /\ remote[c.id].allowed_ips = pre.allowed_ips
                 /\ remote[c.id].write_enabled = pre.write_enabled
                 /\ remote[c.id].description = pre.description

\* a successful Update to the block that sets only user_id, of a token that
\* held a description, a flag and networks
C6_Witness ==
    /\ last = "Update"
    /\ Len(calls) = 2
    /\ calls[1].status = Ok
    /\ pre.description = ""
    /\ pre.allowed_ips = <<>>
    /\ ~pre.write_enabled
    /\ pre.expires = ""
    /\ pre.key = Key40
    /\ calls[1].id \in DOMAIN remote
    /\ remote[calls[1].id].description = ""
    /\ remote[calls[1].id].allowed_ips = <<>>

C8_KeyNeverBlanked ==
    (last \in {"Create", "Read", "Update"} /\ d.id # "") =>
        /\ pre.key # "" => d.key # ""
        /\ (\A i \in 1..Len(calls) :
               calls[i].op \in {"create", "read"} => calls[i].payload.key = "")
              => d.key = pre.key

\* a Read that found the token, got no key, and left the configured key
C8_Witness ==
    /\ last = "Read"
    /\ calls[1].status = Ok
    /\ calls[1].payload.key = ""
    /\ pre.key = KeyV2
    /\ d.key = KeyV2

\* C9: once the create call has succeeded, the read that follows is issued
\* with the local ID already the remote-assigned one; when that read fails
\* with anything but a 404 Create returns the error with the ID kept, and
\* Create returns success with a blank ID only when that read was answered 404.
C9_CreateKeepsId ==
    (last = "Create" /\ Len(calls) > 0 /\ calls[1].status = Ok) =>
        /\ Len(calls) = 2
        /\ calls[2].op = "read"
        /\ calls[2].entry.id = FormatInt(calls[1].payload.id)
        /\ calls[2].id = calls[1].payload.id
        /\ (calls[2].status.kind # "ok" /\ ~Is404(calls[2].status)) =>
              /\ ret = calls[2].status
              /\ d.id = FormatInt(calls[1].payload.id)
        /\ calls[2].status = Ok =>
              /\ ret = NilErr
              /\ d.id = FormatInt(calls[1].payload.id)
        /\ (ret = NilErr /\ d.id = "") <=> Is404(calls[2].status)

\* a Create whose create call succeeded and whose read failed: the ID is kept
C9_Witness ==
    /\ last = "Create"
    /\ Len(calls) = 2
    /\ calls[1].status = Ok
    /\ calls[2].status = TransportErr
    /\ ret = TransportErr
    /\ d.id = FormatInt(calls[1].payload.id)
    /\ calls[1].payload.id \in DOMAIN remote

====
